---- MODULE Spec2Model ----
(***************************************************************************)
(* State-machine model of nicegui_live_collab.py: the shared in-memory     *)
(* document store (documents), the presence table (active_users), and one  *)
(* per-page session (the closure variables of doc_room: state, textarea,   *)
(* the debounce timer and the poll timer).  Every event handler runs to    *)
(* completion on the single asyncio event loop, so each handler is one     *)
(* atomic action.  Time is counted in units of 0.05 s.  A timestamp ts is   *)
(* kept as its age now - ts and a timer as the time left until it is due,  *)
(* so that the clock itself needs no bound: Tick ages every timestamp and  *)
(* runs every timer down.                                                  *)
(***************************************************************************)
EXTENDS Naturals, Integers, FiniteSets, Sequences, TLC

VARIABLES
    documents,     \* documents: doc_id -> [text, version, modified (as an age)]
    active_users,  \* active_users: doc_id -> (user_id -> age of the timestamp)
    state,         \* per open page: the state dict, textarea.value, timers
    op,            \* the handler that ran last and what it reported
    last_writer,   \* per document: the session whose write produced the current version
    scen           \* progress of the "notes" scenario of the specification

vars == <<documents, active_users, state, op, last_writer, scen>>

----------------------------------------------------------------------------
(* Bounds of the model *)

MaxVersion == 3

StampCap == 2

(* Program constants, in units of 0.05 s *)

LivenessWindow == 4

DebounceInterval == 4

SyncInterval == 3

(* Inputs *)

SessionIds == {"A", "B"}

DocIds == {"notes"}

PresenceDocIds == {"notes", "default"}

Texts == {"", "hello"}

ScenarioTexts == {"hello", "hello!", "hello world"}

Undecodable == "<undecodable bytes>"

NoSession == "-"

Empty == [x \in {} |-> x]

----------------------------------------------------------------------------
(* get_hash: the md5 hex digest of the text *)

get_hash(text) ==
    CASE text = "" -> "d41d8cd98f00b204e9800998ecf8427e"
      [] text = "hello" -> "5d41402abc4b2a76b9719d911017c592"
      [] text = "hello!" -> "5a8dd3ad0756a93ded72b823b19dd877"
      [] text = "hello world" -> "5eb63bbbe01eeed093cb22bb8f5acdc3"

(* cleanup_inactive_users: drop the users not seen for LivenessWindow *)

Fresh_up_to_the_window(age) == age <= LivenessWindow

(* a liveness window no longer than the interval of the polls *)
Fresh_within_the_poll_interval(age) == age < SyncInterval

(* current_time - ts < 0.2 *)
Fresh(age) == age < LivenessWindow

cleanup_inactive_users(au, doc_id) ==
    IF doc_id \notin DOMAIN au
    THEN au
    ELSE [au EXCEPT ![doc_id] =
            [uid \in {u \in DOMAIN au[doc_id] : Fresh(au[doc_id][u])} |-> au[doc_id][uid]]]

cleanup_count(au, doc_id) ==
    IF doc_id \notin DOMAIN au
    THEN 0
    ELSE Cardinality(DOMAIN cleanup_inactive_users(au, doc_id)[doc_id])

(* The one-shot ui.timer objects created by on_type *)

NoTimer == [ref |-> FALSE, active |-> FALSE, fired |-> FALSE, due |-> 0]

NewTimer == [ref |-> TRUE, active |-> TRUE, fired |-> FALSE, due |-> DebounceInterval]

Live(tm) == tm.ref /\ tm.active /\ ~tm.fired

deactivate(tm) == [tm EXCEPT !.active = FALSE, !.due = 0]

(* a handler that drops the timer without deactivating it *)
cancel_pending_without_deactivate(tm) == tm

(* if state['pending_save']: state['pending_save'].deactivate() *)
cancel_pending(tm) == IF tm.ref THEN deactivate(tm) ELSE tm

(* A timer object that state['pending_save'] no longer refers to keeps running
   unless it was deactivated first. *)
Dropped(tm) == IF Live(tm) THEN {tm} ELSE {}

LiveTimers(s) == Dropped(state[s].pending_save) \cup state[s].orphans

(* a timer created without once=True: it is armed again when its callback has run *)
AfterFire_rearming(st, tm) ==
    IF tm = st.pending_save
    THEN [st EXCEPT !.pending_save = [tm EXCEPT !.due = DebounceInterval]]
    ELSE st

AfterFire(st, tm) ==
    IF tm = st.pending_save
    THEN [st EXCEPT !.pending_save = [tm EXCEPT !.fired = TRUE, !.due = 0]]
    ELSE [st EXCEPT !.orphans = @ \ {tm}]

----------------------------------------------------------------------------
(* The record of the last handler *)

NoCount == Empty

Did(name, sid, wrote, changed, count) ==
    [name |-> name, sid |-> sid, wrote |-> wrote, changed |-> changed, count |-> count,
     rejoined |-> FALSE, stale |-> FALSE]

(* a poll of a session that the presence table had forgotten *)
Rejoining(o, s) ==
    [o EXCEPT !.rejoined = s \notin DOMAIN active_users[state[s].doc_id]]

(* a write of a session that knew an older version than the document had *)
Overwriting(o, s) ==
    [o EXCEPT !.stale = o.wrote /\ state[s].version < documents[state[s].doc_id].version]

----------------------------------------------------------------------------
(* save: lines 106-122 *)

commit_skipping_a_version(docs, doc_id, text) ==
    [docs EXCEPT ![doc_id] = [@ EXCEPT !.text = text,
                                       !.version = @ + 2,
                                       !.modified = 0]]

commit(docs, doc_id, text) ==
    [docs EXCEPT ![doc_id] = [@ EXCEPT !.text = text,
                                       !.version = @ + 1,
                                       !.modified = 0]]

(* a store that refuses the write of a session that knows an older version *)
save_documents_checking_version(s) ==
    IF state[s].skip_next_save
    THEN documents
    ELSE IF state[s].version = documents[state[s].doc_id].version
         THEN commit(documents, state[s].doc_id, state[s].textarea)
         ELSE documents

save_documents(s) ==
    IF state[s].skip_next_save
    THEN documents
    ELSE commit(documents, state[s].doc_id, state[s].textarea)

save_state_forgetting_version(s) ==
    IF state[s].skip_next_save
    THEN [state[s] EXCEPT !.skip_next_save = FALSE]
    ELSE [state[s] EXCEPT !.last_hash = get_hash(state[s].textarea),
                          !.local_text = state[s].textarea]

(* a session that counts its own write twice *)
save_state_counting_twice(s) ==
    IF state[s].skip_next_save
    THEN [state[s] EXCEPT !.skip_next_save = FALSE]
    ELSE [state[s] EXCEPT !.version = save_documents(s)[state[s].doc_id].version + 1,
                          !.last_hash = get_hash(state[s].textarea),
                          !.local_text = state[s].textarea]

save_state(s) ==
    IF state[s].skip_next_save
    THEN [state[s] EXCEPT !.skip_next_save = FALSE]
    ELSE [state[s] EXCEPT !.version = save_documents(s)[state[s].doc_id].version,
                          !.last_hash = get_hash(state[s].textarea),
                          !.local_text = state[s].textarea]

save_writes(s) == ~state[s].skip_next_save

CanWrite(doc_id) == documents[doc_id].version < MaxVersion

----------------------------------------------------------------------------
(* sync: the pull of lines 135-153, for a session that is not typing *)

(* a pull that does not look at the versions *)
sync_pulls_whenever_texts_differ(st, docs) ==
    docs[st.doc_id].text # st.textarea

sync_pulls(st, docs) ==
    /\ docs[st.doc_id].version > st.version
    /\ docs[st.doc_id].text # st.textarea

sync_state_pulling_while_typing(st, docs) ==
    IF sync_pulls(st, docs)
    THEN [st EXCEPT !.textarea = docs[st.doc_id].text,
                    !.version = docs[st.doc_id].version,
                    !.last_hash = get_hash(docs[st.doc_id].text),
                    !.local_text = docs[st.doc_id].text,
                    !.skip_next_save = TRUE]
    ELSE st

sync_state_tracking_version(st, docs) ==
    IF st.is_typing
    THEN st
    ELSE IF sync_pulls(st, docs)
         THEN [st EXCEPT !.textarea = docs[st.doc_id].text,
                         !.version = docs[st.doc_id].version,
                         !.last_hash = get_hash(docs[st.doc_id].text),
                         !.local_text = docs[st.doc_id].text,
                         !.skip_next_save = TRUE]
         ELSE IF docs[st.doc_id].version > st.version
              THEN [st EXCEPT !.version = docs[st.doc_id].version]
              ELSE st

sync_state(st, docs) ==
    IF st.is_typing
    THEN st
    ELSE IF sync_pulls(st, docs)
         THEN [st EXCEPT !.textarea = docs[st.doc_id].text,
                         !.version = docs[st.doc_id].version,
                         !.last_hash = get_hash(docs[st.doc_id].text),
                         !.local_text = docs[st.doc_id].text,
                         !.skip_next_save = TRUE]
         ELSE st

----------------------------------------------------------------------------
(* The scenario of the specification, as a monitor of the handlers that ran:
   "A saved hello"        A's debounced edit committed "hello" as version 1 of
                          "notes", B knowing version 0
   "B has hello"          B polled and took "hello" at version 1
   "B types"              B is typing "hello!"
   "A saved hello world"  A's debounced edit committed "hello world" as
                          version 2 while B is typing
   "B done"               B's debounce deadline elapsed
   "polled"               a session polled afterwards
   "off"                  the run left the scenario *)

ScenarioAfter ==
    LET o == op'
        A == "A"
        B == "B"
        doc == documents'["notes"]
        elsewhere == o.sid \in DOMAIN state' /\ state'[o.sid].doc_id # "notes"
    IN CASE o.name \in {"tick", "doc_room", "init", "index"} \/ elsewhere -> scen
         [] o.name = "sync" ->
              IF scen = "A saved hello" /\ o.sid = B /\ o.changed
                 /\ state'[B].local_text = "hello" /\ state'[B].version = 1
              THEN "B has hello"
              ELSE IF scen \in {"B done", "polled"} THEN "polled" ELSE scen
         [] o.name = "on_type" ->
              IF o.sid = A
              THEN IF scen \in {"start", "A saved hello", "B has hello", "B types"}
                   THEN scen
                   ELSE "off"
              ELSE IF o.sid = B /\ scen \in {"B has hello", "B types"}
                      /\ state'[B].textarea = "hello!"
                   THEN "B types"
                   ELSE "off"
         [] o.name = "finish_typing" ->
              IF scen = "start" /\ o.sid = A /\ o.wrote /\ B \in DOMAIN state'
                 /\ state'[B].version = 0 /\ ~state'[B].is_typing
                 /\ doc.text = "hello" /\ doc.version = 1
              THEN "A saved hello"
              ELSE IF scen = "B types" /\ o.sid = A /\ o.wrote
                      /\ doc.text = "hello world" /\ doc.version = 2
                      /\ state'[B].is_typing /\ state'[B].textarea = "hello!"
                   THEN "A saved hello world"
                   ELSE IF scen = "A saved hello world" /\ o.sid = B
                        THEN "B done"
                        ELSE "off"
         [] OTHER -> "off"

Watch == scen' = ScenarioAfter

----------------------------------------------------------------------------
Init ==
    /\ documents = Empty
    /\ active_users = Empty
    /\ state = Empty
        /\ op = Did("init", NoSession, FALSE, FALSE, NoCount)
    /\ last_writer = Empty
    /\ scen = "start"

Open(s) == s \in DOMAIN state

(* lines 43-51: a document is created on its first reference *)
initial_documents_always(doc_id) ==
    (doc_id :> [text |-> "", version |-> 0, modified |-> 0]) @@ documents

initial_documents(doc_id) ==
    IF doc_id \in DOMAIN documents
    THEN documents
    ELSE (doc_id :> [text |-> "", version |-> 0, modified |-> 0]) @@ documents

(* doc_room: lines 40-56, 84-94, 290 *)
doc_room(s, doc_id) ==
    /\ s \notin DOMAIN state
    /\ LET docs == initial_documents(doc_id)
           au0 == IF doc_id \in DOMAIN active_users
                  THEN active_users
                  ELSE (doc_id :> Empty) @@ active_users
           au1 == cleanup_inactive_users(au0, doc_id)
       IN /\ documents' = docs
          /\ active_users' = [au1 EXCEPT ![doc_id] = (s :> 0) @@ au1[doc_id]]
          /\ state' = (s :> [doc_id |-> doc_id,
                             version |-> docs[doc_id].version,
                             is_typing |-> FALSE,
                             last_hash |-> get_hash(docs[doc_id].text),
                             pending_save |-> NoTimer,
                             local_text |-> docs[doc_id].text,
                             skip_next_save |-> FALSE,
                             textarea |-> docs[doc_id].text,
                             orphans |-> {},
                             sync_due |-> 0]) @@ state
          /\ last_writer' = IF doc_id \in DOMAIN last_writer
                            THEN last_writer
                            ELSE (doc_id :> NoSession) @@ last_writer
    /\ op' = Did("doc_room", s, FALSE, FALSE, NoCount)
    /\ Watch

(* sync: lines 124-153, run by ui.timer(0.15, sync) *)
sync(s) ==
    /\ Open(s)
    /\ state[s].sync_due = 0
    /\ LET d == state[s].doc_id
           au == [active_users EXCEPT ![d] = (s :> 0) @@ active_users[d]]
           st == sync_state(state[s], documents)
       IN /\ active_users' = cleanup_inactive_users(au, d)
          /\ state' = [state EXCEPT ![s] = [st EXCEPT !.sync_due = SyncInterval]]
          /\ op' = Rejoining(Did("sync", s, FALSE, st.textarea # state[s].textarea,
                                 (d :> cleanup_count(au, d))), s)
    /\ UNCHANGED <<documents, last_writer>>
    /\ Watch

(* on_type: lines 155-171; the update:model-value event of the browser carries
   the changed value of the textarea *)
on_type(s, text) ==
    /\ Open(s)
    /\ text # state[s].textarea
    /\ LET old == cancel_pending(state[s].pending_save)
       IN state' = [state EXCEPT ![s] = [@ EXCEPT !.textarea = text,
                                                  !.is_typing = TRUE,
                                                  !.local_text = text,
                                                  !.orphans = @ \cup Dropped(old),
                                                  !.pending_save = NewTimer]]
    /\ op' = Did("on_type", s, FALSE, FALSE, NoCount)
    /\ UNCHANGED <<documents, active_users, last_writer>>
    /\ Watch

(* finish_typing: lines 167-169, the callback of a one-shot timer that is due *)
finish_typing(s) ==
    /\ Open(s)
    /\ \E tm \in LiveTimers(s) :
          /\ tm.due = 0
          /\ save_writes(s) => CanWrite(state[s].doc_id)
          /\ documents' = save_documents(s)
          /\ state' = [state EXCEPT ![s] =
                          [AfterFire(save_state(s), tm) EXCEPT !.is_typing = FALSE]]
          /\ op' = Overwriting(Did("finish_typing", s, save_writes(s), FALSE, NoCount), s)
          /\ last_writer' = IF save_writes(s)
                            THEN [last_writer EXCEPT ![state[s].doc_id] = s]
                            ELSE last_writer
    /\ UNCHANGED active_users
    /\ Watch

(* on_blur: lines 173-178 *)
on_blur(s) ==
    /\ Open(s)
    /\ save_writes(s) => CanWrite(state[s].doc_id)
    /\ documents' = save_documents(s)
    /\ state' = [state EXCEPT ![s] =
                    [save_state(s) EXCEPT !.pending_save = cancel_pending(@),
                                          !.is_typing = FALSE]]
    /\ op' = Overwriting(Did("on_blur", s, save_writes(s), FALSE, NoCount), s)
    /\ last_writer' = IF save_writes(s)
                      THEN [last_writer EXCEPT ![state[s].doc_id] = s]
                      ELSE last_writer
    /\ UNCHANGED active_users
    /\ Watch

(* handle_upload: lines 185-228; e.file.text() raises on undecodable bytes.
   The handler awaits only there, before it reads or writes anything, so what
   follows the await is one step. *)
(* the pending save cancelled before the file is decoded *)
upload_state_cancelling_before_decoding(s, content) ==
    LET old == cancel_pending(state[s].pending_save)
    IN IF content = Undecodable
       THEN [state[s] EXCEPT !.pending_save = NoTimer,
                             !.orphans = @ \cup Dropped(old)]
       ELSE [state[s] EXCEPT !.pending_save = NoTimer,
                             !.orphans = @ \cup Dropped(old),
                             !.textarea = content,
                             !.version = documents[state[s].doc_id].version + 1,
                             !.last_hash = get_hash(content),
                             !.local_text = content,
                             !.is_typing = FALSE,
                             !.skip_next_save = TRUE]

(* lines 191-215: what the handler does to the session's state; when
   e.file.text() raises, nothing of lines 195-215 runs *)
upload_state(s, content) ==
    LET old == cancel_pending(state[s].pending_save)
    IN IF content = Undecodable
       THEN state[s]
       ELSE [state[s] EXCEPT !.pending_save = NoTimer,
                             !.orphans = @ \cup Dropped(old),
                             !.textarea = content,
                             !.version = commit(documents, state[s].doc_id, content)
                                            [state[s].doc_id].version,
                             !.last_hash = get_hash(content),
                             !.local_text = content,
                             !.is_typing = FALSE,
                             !.skip_next_save = TRUE]

handle_upload(s, content) ==
    /\ Open(s)
    /\ state' = [state EXCEPT ![s] = upload_state(s, content)]
    /\ LET d == state[s].doc_id
           docs == commit(documents, d, content)
       IN IF content = Undecodable
          THEN /\ op' = Did("upload_error", s, FALSE, FALSE, NoCount)
               /\ UNCHANGED <<documents, last_writer>>
          ELSE /\ CanWrite(d)
               /\ documents' = docs
               /\ op' = Overwriting(Did("handle_upload", s, TRUE, FALSE, NoCount), s)
               /\ last_writer' = [last_writer EXCEPT ![d] = s]
    /\ UNCHANGED active_users
    /\ Watch

(* clear_doc: lines 250-271 *)
clear_doc(s) ==
    /\ Open(s)
    /\ LET d == state[s].doc_id
           old == cancel_pending(state[s].pending_save)
           docs == commit(documents, d, "")
       IN /\ CanWrite(d)
          /\ documents' = docs
          /\ state' = [state EXCEPT ![s] =
                          [@ EXCEPT !.pending_save = NoTimer,
                                    !.orphans = @ \cup Dropped(old),
                                    !.textarea = "",
                                    !.version = docs[d].version,
                                    !.last_hash = get_hash(""),
                                    !.local_text = "",
                                    !.is_typing = FALSE,
                                    !.skip_next_save = TRUE]]
          /\ op' = Overwriting(Did("clear_doc", s, TRUE, FALSE, NoCount), s)
          /\ last_writer' = [last_writer EXCEPT ![d] = s]
    /\ UNCHANGED active_users
    /\ Watch

(* index: lines 316-330, the listing evicts and counts the users of every document *)
RECURSIVE cleanup_all(_, _)
cleanup_all(au, ds) ==
    IF ds = {}
    THEN au
    ELSE LET d == CHOOSE x \in ds : TRUE
         IN cleanup_all(cleanup_inactive_users(au, d), ds \ {d})

index ==
    /\ documents # Empty
    /\ active_users' = cleanup_all(active_users, DOMAIN documents)
    /\ op' = Did("index", NoSession, FALSE, FALSE,
                 [d \in DOMAIN documents |-> cleanup_count(active_users, d)])
    /\ UNCHANGED <<documents, state, last_writer>>
    /\ Watch

(* the clock: dt * 0.05 s pass with no handler running *)
Min(a, b) == IF a < b THEN a ELSE b

Older(age, dt, cap) == Min(age + dt, cap)

Sooner(due, dt) == IF due > dt THEN due - dt ELSE 0

RunDown(tm, dt) == IF Live(tm) THEN [tm EXCEPT !.due = Sooner(@, dt)] ELSE tm

Tick(dt) ==
    /\ documents' = [d \in DOMAIN documents |->
                        [documents[d] EXCEPT !.modified = Older(@, dt, StampCap)]]
    /\ active_users' = [d \in DOMAIN active_users |->
                           [u \in DOMAIN active_users[d] |->
                               Older(active_users[d][u], dt, LivenessWindow)]]
    /\ state' = [s \in DOMAIN state |->
                    [state[s] EXCEPT !.pending_save = RunDown(@, dt),
                                     !.orphans = {RunDown(tm, dt) : tm \in @},
                                     !.sync_due = Sooner(@, dt)]]
    /\ op' = Did("tick", NoSession, FALSE, FALSE, NoCount)
    /\ UNCHANGED last_writer
    /\ Watch

----------------------------------------------------------------------------
(* A pause at least as long as every interval of the program: after it every
   running timer is due and every presence entry is stale.  No timer is
   guaranteed to fire the moment it is due (the callbacks share one event loop),
   so a run in which the clock moves in such pauses only is a run of the
   program, and as far as documents and sessions' texts go every run is such a
   run: a timer that is due and has not fired behaves like one that is not due,
   and no handler reads the presence table to decide what it does to a text. *)
LongPause ==
    IF DebounceInterval > LivenessWindow THEN DebounceInterval ELSE LivenessWindow

Next ==
    \/ \E s \in SessionIds, d \in DocIds : doc_room(s, d)
    \/ \E s \in SessionIds : sync(s)
    \/ \E s \in SessionIds, t \in Texts : on_type(s, t)
    \/ \E s \in SessionIds : finish_typing(s)
    \/ \E s \in SessionIds : on_blur(s)
    \/ \E s \in SessionIds, c \in Texts \cup {Undecodable} : handle_upload(s, c)
    \/ \E s \in SessionIds : clear_doc(s)
    \/ index
    \/ Tick(LongPause)

Spec == Init /\ [][Next]_vars

(* The presence table under the exact clock, 0.05 s at a time *)
NextPresence ==
    \/ \E s \in SessionIds, d \in PresenceDocIds : doc_room(s, d)
    \/ \E s \in SessionIds : sync(s)
    \/ \E s \in SessionIds : on_type(s, "hello")
    \/ \E s \in SessionIds : finish_typing(s)
    \/ index
    \/ Tick(1)

SpecPresence == Init /\ [][NextPresence]_vars

(* The exact clock with timers that do fire: time passes, and the callback of
   a one-shot timer that is due runs *)
SpecTyping ==
    /\ Init /\ [][NextPresence]_vars
    /\ WF_vars(Tick(1))
    /\ \A s \in SessionIds : WF_vars(finish_typing(s))

(* The runs that follow the scenario of the specification *)
OnScenario == scen' # "off"

NextScenario ==
    \/ \E s \in SessionIds : doc_room(s, "notes") /\ OnScenario
    \/ \E s \in SessionIds : sync(s) /\ OnScenario
    \/ \E s \in SessionIds, t \in ScenarioTexts : on_type(s, t) /\ OnScenario
    \/ \E s \in SessionIds : finish_typing(s) /\ OnScenario
    \/ Tick(LongPause) /\ OnScenario

SpecScenario == Init /\ [][NextScenario]_vars

----------------------------------------------------------------------------
(* Properties *)

DocOf(s) == state[s].doc_id

Wrote(d) == op'.wrote /\ state'[op'.sid].doc_id = d

(* C1: every accepted write (a save that is not skipped, an upload, a clear)
   raises the version of its document by exactly 1, and no other step changes
   the version or the text of a document: the version never decreases and never
   skips a number, whatever the interleaving of the sessions. *)
C1_MonotonicVersion ==
    [][\A d \in DOMAIN documents :
          /\ d \in DOMAIN documents'
          /\ IF Wrote(d)
             THEN documents'[d].version = documents[d].version + 1
             ELSE /\ documents'[d].version = documents[d].version
                  /\ documents'[d].text = documents[d].text]_vars

C1_Witness ==
    /\ op.wrote
    /\ op.name = "finish_typing"
    /\ documents[DocOf(op.sid)].version = 2
    /\ \E t \in DOMAIN state : t # op.sid /\ DocOf(t) = DocOf(op.sid) /\ state[t].version = 1

(* C2: when the deadline of the last edit of a burst elapses, the session's
   text is committed: the handler writes, and the document holds the text of
   the last edit. *)
C2_BurstCommitsOnce ==
    op.name = "finish_typing" =>
        /\ op.wrote
        /\ documents[DocOf(op.sid)].text = state[op.sid].local_text
        /\ last_writer[DocOf(op.sid)] = op.sid

(* C3: while a session is typing, its own polls, and every step of another
   session, leave its local text, its visible buffer, its known version and its
   known hash unchanged. *)
C3_TypingSuppressesPull ==
    [][\A s \in DOMAIN state :
          (state[s].is_typing /\ (op'.name = "sync" \/ op'.sid # s)) =>
              /\ state'[s].local_text = state[s].local_text
              /\ state'[s].textarea = state[s].textarea
              /\ state'[s].version = state[s].version
              /\ state'[s].last_hash = state[s].last_hash]_vars

C3_Witness ==
    /\ op.name = "sync"
    /\ state[op.sid].is_typing
    /\ documents[DocOf(op.sid)].version > state[op.sid].version
    /\ documents[DocOf(op.sid)].text # state[op.sid].textarea

(* C4 as claimed: a poll of a session that is not typing, with the server
   version ahead and the server text equal to the session's text, sets the known
   version to the server version and replaces nothing. *)
IdenticalAhead(s) ==
    /\ ~state[s].is_typing
    /\ documents[DocOf(s)].version > state[s].version
    /\ documents[DocOf(s)].text = state[s].textarea

C4_KnownVersionUpdated ==
    [][\A s \in DOMAIN state :
          (op'.name = "sync" /\ op'.sid = s /\ IdenticalAhead(s)) =>
              /\ state'[s].version = documents[DocOf(s)].version
              /\ ~op'.changed
              /\ state'[s].textarea = state[s].textarea]_vars

(* C4 as amended: such a poll changes nothing in the session: the buffer is
   not replaced, no text change is reported, and the known version stays behind
   the server version. *)
C4_IdenticalContentNoOp ==
    [][\A s \in DOMAIN state :
          (op'.name = "sync" /\ op'.sid = s /\ IdenticalAhead(s)) =>
              /\ ~op'.changed
              /\ state'[s].textarea = state[s].textarea
              /\ state'[s].local_text = state[s].local_text
              /\ state'[s].version = state[s].version
              /\ state'[s].last_hash = state[s].last_hash
              /\ state'[s].skip_next_save = state[s].skip_next_save]_vars

C4_Witness ==
    /\ op.name = "sync"
    /\ ~op.changed
    /\ IdenticalAhead(op.sid)

(* C5: a query of the active count of a document (by a poll, after its own
   heartbeat, or by the listing) evicts every participant whose last heartbeat
   is at least the liveness window old and keeps every younger one; the count it
   returns is the number of entries that remain, all of them younger than the
   window; a polling session that had been evicted is in the table, and in the
   count, again.  (Opening a page queries too, before it registers the new
   session, and shows no count.) *)
Queried(d) ==
    \/ op'.name = "index"
    \/ op'.name \in {"sync", "doc_room"} /\ state'[op'.sid].doc_id = d

Heartbeat(d) == IF op'.name \in {"sync", "doc_room"} THEN {op'.sid} ELSE {}

C5_PresenceExpiry ==
    [][\A d \in DOMAIN active_users :
          Queried(d) =>
              /\ DOMAIN active_users'[d] =
                    {u \in DOMAIN active_users[d] : active_users[d][u] < LivenessWindow}
                       \cup Heartbeat(d)
              /\ \A u \in DOMAIN active_users'[d] : active_users'[d][u] < LivenessWindow
              /\ op'.name \in {"sync", "index"} =>
                    /\ d \in DOMAIN op'.count
                    /\ op'.count[d] = Cardinality(DOMAIN active_users'[d])]_vars

C5_Witness ==
    /\ op.name = "sync"
    /\ op.rejoined
    /\ op.count[DocOf(op.sid)] = 1
    /\ \E t \in DOMAIN state :
          /\ DocOf(t) = DocOf(op.sid)
          /\ t \notin DOMAIN active_users[DocOf(op.sid)]

(* C6: in the scenario of the specification, once B's debounce deadline has
   elapsed "notes" holds "hello!" as version 3, and a session that polls
   afterwards ends with that text and that version. *)
C6_Scenario ==
    /\ scen = "B done" =>
          /\ documents["notes"].text = "hello!"
          /\ documents["notes"].version = 3
    /\ (scen = "polled" /\ op.name = "sync") =>
          /\ state[op.sid].local_text = "hello!"
          /\ state[op.sid].version = 3

(* C7: when no session of a document is typing and no debounce timer is
   running, one more poll of each session leaves every session's local text
   equal to the text of the document. *)
Quiescent(d) ==
    \A s \in DOMAIN state :
        DocOf(s) = d => ~state[s].is_typing /\ LiveTimers(s) = {}

C7_Convergence ==
    \A d \in DOMAIN documents :
        Quiescent(d) =>
            \A s \in DOMAIN state :
                DocOf(s) = d => sync_state(state[s], documents).local_text = documents[d].text

(* C8: the first reference to a document key creates the document with text ""
   and version 0; opening a session on an existing key, a poll and the listing
   leave every existing document's text, version and modification time as they
   were. *)
C8_LazyCreationReadOnly ==
    [][op'.name \in {"doc_room", "sync", "index"} =>
          /\ \A d \in DOMAIN documents :
                d \in DOMAIN documents' /\ documents'[d] = documents[d]
          /\ \A d \in DOMAIN documents' \ DOMAIN documents :
                /\ op'.name = "doc_room"
                /\ documents'[d].text = ""
                /\ documents'[d].version = 0]_vars

C8_Witness ==
    /\ op.name = "doc_room"
    /\ documents[DocOf(op.sid)].version > 0
    /\ documents[DocOf(op.sid)].text # ""
    /\ documents[DocOf(op.sid)].modified > 0

(* C9: after a blur, whatever the state of the session was, the document
   holds the session's text (the blur committed it), the session is not typing
   and no debounce timer of it is running. *)
C9_BlurCommits ==
    op.name = "on_blur" =>
        /\ documents[DocOf(op.sid)].text = state[op.sid].textarea
        /\ ~state[op.sid].is_typing
        /\ LiveTimers(op.sid) = {}

(* C10: a write of a session leaves its known version equal to the version the
   write produced, and a poll of the session whose write is the latest write of
   the document changes neither its texts nor its known version and reports no
   change. *)
C10_OwnWriteThenPollNoOp ==
    [][\A s \in DOMAIN state :
          /\ (op'.wrote /\ op'.sid = s) =>
                /\ state'[s].version = documents'[DocOf(s)].version
                /\ documents'[DocOf(s)].version = documents[DocOf(s)].version + 1
          /\ (op'.name = "sync" /\ op'.sid = s /\ last_writer[DocOf(s)] = s) =>
                /\ state'[s].local_text = state[s].local_text
                /\ state'[s].textarea = state[s].textarea
                /\ state'[s].version = state[s].version
                /\ ~op'.changed]_vars

C10_Witness ==
    /\ op.name = "sync"
    /\ last_writer[DocOf(op.sid)] = op.sid
    /\ ~state[op.sid].is_typing
    /\ state[op.sid].version = documents[DocOf(op.sid)].version
    /\ \E t \in DOMAIN state :
          /\ DocOf(t) = DocOf(op.sid)
          /\ state[t].version < documents[DocOf(op.sid)].version

(* C11: last write wins.  A save that is not skipped, an upload and a clear
   write whatever version the session knows: when the session knows an older
   version than the document has, the write is neither refused nor merged, the
   document then holds exactly the session's text, its version is the previous
   one plus 1 and the session is the document's last writer; a step that is not
   a write leaves the text, so the document holds the text of the write that
   ran last. *)
Stale(s) == state[s].version < documents[DocOf(s)].version

C11_LastWriteWins ==
    [][\A s \in DOMAIN state :
          /\ (op'.sid = s /\ Stale(s)
                 /\ \/ op'.name \in {"handle_upload", "clear_doc"}
                    \/ op'.name \in {"finish_typing", "on_blur"}
                          /\ ~state[s].skip_next_save) =>
                /\ op'.wrote
                /\ documents'[DocOf(s)].text = state'[s].textarea
                /\ op'.name \in {"finish_typing", "on_blur"} =>
                      state'[s].textarea = state[s].textarea
                /\ documents'[DocOf(s)].version = documents[DocOf(s)].version + 1
                /\ last_writer'[DocOf(s)] = s
          /\ ~op'.wrote => documents'[DocOf(s)].text = documents[DocOf(s)].text]_vars

C11_Witness ==
    /\ op.name = "finish_typing"
    /\ op.stale
    /\ documents[DocOf(op.sid)].text = "hello"
    /\ last_writer[DocOf(op.sid)] = op.sid
    /\ \E t \in DOMAIN state :
          /\ t # op.sid
          /\ DocOf(t) = DocOf(op.sid)
          /\ state[t].local_text = ""
          /\ state[t].version = documents[DocOf(op.sid)].version - 1

(* C12: an upload whose bytes cannot be decoded is reported as failed and
   changes nothing: every document keeps its text, version and modification
   time, and the uploading session keeps its known version, its local text, its
   buffer, its typing flag and its pending save (a running debounce timer keeps
   running). *)
C12_FailedUploadChangesNothing ==
    [][op'.name = "upload_error" =>
          /\ documents' = documents
          /\ last_writer' = last_writer
          /\ state'[op'.sid].version = state[op'.sid].version
          /\ state'[op'.sid].local_text = state[op'.sid].local_text
          /\ state'[op'.sid].textarea = state[op'.sid].textarea
          /\ state'[op'.sid].is_typing = state[op'.sid].is_typing
          /\ state'[op'.sid].pending_save = state[op'.sid].pending_save
          /\ state'[op'.sid].orphans = state[op'.sid].orphans]_vars

C12_Witness ==
    /\ op.name = "upload_error"
    /\ state[op.sid].is_typing
    /\ Live(state[op.sid].pending_save)
    /\ state[op.sid].local_text = "hello"
    /\ state[op.sid].version < documents[DocOf(op.sid)].version
    /\ documents[DocOf(op.sid)].modified = 0

(* C13: a poll of a session that is not typing.  When the version of the
   document is not greater than the version the session knows, nothing in the
   session changes and no change of the buffer is reported.  When it is greater
   and the text of the document differs from the session's text, then after the
   poll the session's local text and buffer are the text of the document, its
   known version is the version of the document, its known hash is the hash of
   the text of the document, and the change of the buffer is reported. *)
C13_PollPullsNewerText ==
    [][\A s \in DOMAIN state :
          (op'.name = "sync" /\ op'.sid = s /\ ~state[s].is_typing) =>
              IF documents[DocOf(s)].version <= state[s].version
              THEN /\ state'[s].version = state[s].version
                   /\ state'[s].local_text = state[s].local_text
                   /\ state'[s].textarea = state[s].textarea
                   /\ state'[s].last_hash = state[s].last_hash
                   /\ state'[s].is_typing = state[s].is_typing
                   /\ state'[s].pending_save = state[s].pending_save
                   /\ state'[s].skip_next_save = state[s].skip_next_save
                   /\ ~op'.changed
              ELSE (documents[DocOf(s)].text # state[s].local_text
                       \/ documents[DocOf(s)].text # state[s].textarea) =>
                      /\ state'[s].local_text = documents[DocOf(s)].text
                      /\ state'[s].textarea = documents[DocOf(s)].text
                      /\ state'[s].version = documents[DocOf(s)].version
                      /\ state'[s].last_hash = get_hash(documents[DocOf(s)].text)
                      /\ ~state'[s].is_typing
                      /\ op'.changed]_vars

C13_Witness ==
    /\ op.name = "sync"
    /\ op.changed
    /\ documents[DocOf(op.sid)].version = 2
    /\ state[op.sid].version = 2
    /\ state[op.sid].local_text = documents[DocOf(op.sid)].text
    /\ state[op.sid].last_hash = get_hash(documents[DocOf(op.sid)].text)
    /\ last_writer[DocOf(op.sid)] # op.sid

(* C14: a session never has more than one running debounce timer.  Every
   timer that state['pending_save'] no longer refers to was deactivated or had
   fired before it was dropped; an edit leaves exactly the timer it created
   running, whether or not an earlier one was; a blur, an upload and a clear
   leave none running, whether the timer they deactivate was running, had
   fired or had been deactivated before; and the timer whose callback runs is
   the one the session refers to, never a deactivated one. *)
C14_OneLiveSave ==
    \A s \in DOMAIN state :
        /\ state[s].orphans = {}
        /\ Cardinality(LiveTimers(s)) <= 1
        /\ (op.sid = s /\ op.name = "on_type") => LiveTimers(s) = {NewTimer}
        /\ (op.sid = s /\ op.name \in {"on_blur", "handle_upload", "clear_doc"}) =>
              /\ LiveTimers(s) = {}
              /\ ~state[s].pending_save.fired => ~state[s].pending_save.active
        /\ (op.sid = s /\ op.name = "finish_typing") =>
              /\ LiveTimers(s) = {}
              /\ state[s].pending_save.fired
              /\ state[s].pending_save.active

(* a second edit made while the timer of the first was running (the session
   still knows version 0, so no save of it has run and it has pulled nothing),
   next to a session whose timer was deactivated after it had fired *)
C14_Witness ==
    /\ op.name = "on_type"
    /\ state[op.sid].textarea = ""
    /\ state[op.sid].version = 0
    /\ state[op.sid].pending_save = NewTimer
    /\ \E t \in DOMAIN state :
          /\ t # op.sid
          /\ state[t].pending_save.fired
          /\ ~state[t].pending_save.active

(* C15: when the debounce deadline of a typing session elapses, the session's
   text is committed (the document then holds it, one version later, written
   by this session), the session is not typing any more and has no timer
   running, so that its next poll is not suppressed. *)
C15_DeadlineCommitsAndIdles ==
    [][\A s \in DOMAIN state :
          (op'.name = "finish_typing" /\ op'.sid = s) =>
              /\ state[s].is_typing
              /\ ~state'[s].is_typing
              /\ ~Live(state'[s].pending_save)
              /\ documents'[DocOf(s)].text = state[s].local_text
              /\ documents'[DocOf(s)].version = documents[DocOf(s)].version + 1
              /\ last_writer'[DocOf(s)] = s]_vars

(* The part of C15 that is about time only: under SpecTyping a typing session
   that is not edited again stops typing (while the document can still take a
   version). *)
StillTyping(s) == Open(s) /\ state[s].is_typing /\ CanWrite(state[s].doc_id)

TypingOver(s) ==
    /\ Open(s)
    /\ \/ ~state[s].is_typing
       \/ op.name = "on_type" /\ op.sid = s
       \/ ~CanWrite(state[s].doc_id)

EventuallyIdle == \A s \in SessionIds : StillTyping(s) ~> TypingOver(s)

(* C16: a save (by the debounce timer or by a blur) is skipped only when the
   session has made no local edit since its text last came from the store or
   went to it: the session is not typing and its buffer has the hash it knows.
   A save that follows a local edit writes. *)
EditedLocally(s) ==
    \/ state[s].is_typing
    \/ get_hash(state[s].textarea) # state[s].last_hash

C16_SkipOnlyWithoutEdit ==
    [][\A s \in DOMAIN state :
          (op'.sid = s /\ op'.name \in {"finish_typing", "on_blur"}) =>
              /\ ~op'.wrote => ~EditedLocally(s)
              /\ EditedLocally(s) => documents'[DocOf(s)].text = state[s].textarea]_vars

(* C17: a poll that replaces the text of a session replaces a text the
   session has committed or has got from the store, never an edit that was not
   committed: the replaced buffer has the hash the session knows, which is the
   hash of the text of its last open, save, pull, upload or clear. *)
C17_PollKeepsUncommittedEdit ==
    [][\A s \in DOMAIN state :
          (op'.name = "sync" /\ op'.sid = s
               /\ state'[s].textarea # state[s].textarea) =>
              /\ get_hash(state[s].textarea) = state[s].last_hash
              /\ get_hash(state[s].local_text) = state[s].last_hash]_vars

(* C18: the version a session knows is never greater than the version of its
   document, and a session that has just opened knows the version of the
   document, holds the text of the document as its local text and its buffer,
   knows the hash of that text, is not typing and has no save scheduled. *)
C18_KnownVersionBounded ==
    \A s \in DOMAIN state :
        /\ DocOf(s) \in DOMAIN documents
        /\ state[s].version <= documents[DocOf(s)].version
        /\ (op.name = "doc_room" /\ op.sid = s) =>
              /\ state[s].version = documents[DocOf(s)].version
              /\ state[s].local_text = documents[DocOf(s)].text
              /\ state[s].textarea = documents[DocOf(s)].text
              /\ state[s].last_hash = get_hash(documents[DocOf(s)].text)
              /\ ~state[s].is_typing
              /\ LiveTimers(s) = {}

C18_Witness ==
    /\ op.name = "doc_room"
    /\ documents[DocOf(op.sid)].version = 2
    /\ documents[DocOf(op.sid)].text = "hello"
    /\ state[op.sid].version = 2
    /\ state[op.sid].local_text = "hello"
    /\ \E t \in DOMAIN state :
          /\ DocOf(t) = DocOf(op.sid)
          /\ state[t].is_typing
          /\ state[t].local_text = ""

(* C19: in every reachable state a session is typing exactly when it has a
   debounce timer running (created, not fired, not deactivated): an edit sets
   the flag and starts the timer, and the callback of the timer, a blur, an
   upload and a clear reset the flag and leave no timer running. *)
C19_TypingIffSaveScheduled ==
    \A s \in DOMAIN state :
        /\ state[s].is_typing <=> Live(state[s].pending_save)
        /\ state[s].is_typing <=> LiveTimers(s) # {}

C19_Witness ==
    /\ op.name = "finish_typing"
    /\ ~state[op.sid].is_typing
    /\ state[op.sid].pending_save.fired
    /\ \E t \in DOMAIN state :
          /\ state[t].is_typing
          /\ Live(state[t].pending_save)
          /\ state[t].pending_save.due = 0

(* C20: a session whose polls are on time stays in the presence table of its
   document.  A session whose last heartbeat is at most one poll interval old is
   in the table after every step, whichever session polls, whoever opens a page
   and whenever the listing is shown; while its next poll is not yet due its
   heartbeat is exactly as old as the time since its last poll; and every poll
   leaves the polling session in the table with a fresh heartbeat and reports a
   count of at least 1, the number of entries of the table. *)
OnTime(s) ==
    /\ s \in DOMAIN active_users[DocOf(s)]
    /\ active_users[DocOf(s)][s] <= SyncInterval

C20_PunctualPollerStays ==
    [][\A s \in DOMAIN state :
          /\ OnTime(s) => s \in DOMAIN active_users'[DocOf(s)]
          /\ state'[s].sync_due > 0 =>
                /\ s \in DOMAIN active_users'[DocOf(s)]
                /\ active_users'[DocOf(s)][s] = SyncInterval - state'[s].sync_due
          /\ (op'.name = "sync" /\ op'.sid = s) =>
                /\ s \in DOMAIN active_users'[DocOf(s)]
                /\ active_users'[DocOf(s)][s] = 0
                /\ op'.count[DocOf(s)] >= 1
                /\ op'.count[DocOf(s)] = Cardinality(DOMAIN active_users'[DocOf(s)])]_vars

(* the listing has just evicted a session that polled too late and kept one
   whose poll is due at this moment *)
C20_Witness ==
    /\ op.name = "index"
    /\ \E s \in DOMAIN state, t \in DOMAIN state :
          /\ DocOf(s) = DocOf(t)
          /\ OnTime(s)
          /\ active_users[DocOf(s)][s] = SyncInterval
          /\ state[s].sync_due = 0
          /\ t \notin DOMAIN active_users[DocOf(t)]
          /\ op.count[DocOf(s)] = 1

====
